---------------------------- MODULE Spec2Model ----------------------------
(***************************************************************************)
(* The two sensor platforms of the repository:                             *)
(*   homeassistant/components/whirlpool/sensor.py                          *)
(*   homeassistant/components/devolo_home_network/sensor.py                *)
(*                                                                         *)
(* Four specifications share this module, each driving its own variables   *)
(* and leaving the others at their initial values:                         *)
(*   SpecValue  WasherDryerClass.native_value (washer_state, TANK_FILL)    *)
(*   Spec       one WasherDryerTimeClass entity and its push callback      *)
(*   SpecLife   the entities async_setup_entry creates, sharing clients    *)
(*   SpecNet    DevoloSensorEntity.native_value over coordinator data      *)
(***************************************************************************)
EXTENDS Integers, Sequences, FiniteSets, TLC

VARIABLES
    washer,             \* SpecValue: the WasherDryer read by value_fn
    result,             \* SpecValue: outcome of the last native_value read
    now,                \* Spec: utcnow(), in seconds
    wd_machine_state,   \* Spec: what _wd.get_machine_state() returns
    wd_est_remaining,   \* Spec: Cavity_TimeStatusEstTimeRemaining
    wd_connected,       \* Spec: the client's event socket is open
    wd_callbacks,       \* Spec: update_from_latest_data is registered
    phase,              \* Spec: entity life cycle position
    running,            \* Spec: self._running
    native_value,       \* Spec: self._attr_native_value
    cb_time,            \* Spec (history): instant of the last callback run
    pre_running,        \* Spec (history): _running before that run
    pre_value,          \* Spec (history): _attr_native_value before it
    pre_awaiting,       \* Spec (history): awaiting_finish before it
    awaiting_finish,    \* Spec (history): running push seen, no finish push since
    finish_stamps,      \* Spec (history): finish stamps since the last running push
    finish_time,        \* Spec (history): instant of that finish stamp
    life_now,           \* SpecLife: utcnow()
    clients,            \* SpecLife: per appliance, the shared WasherDryer
    entities,           \* SpecLife: per (appliance, key), the entity object
    coordinator_data,   \* SpecNet: per sensor key, coordinator.data
    net_value           \* SpecNet: per sensor key, last native_value read

valueVars == <<washer, result>>
histVars  == <<cb_time, pre_running, pre_value, pre_awaiting,
               awaiting_finish, finish_stamps, finish_time>>
timeVars  == <<now, wd_machine_state, wd_est_remaining, wd_connected,
               wd_callbacks, phase, running, native_value, histVars>>
lifeVars  == <<life_now, clients, entities>>
netVars   == <<coordinator_data, net_value>>
vars      == <<valueVars, timeVars, lifeVars, netVars>>

(***************************************************************************)
(* Python values                                                           *)
(***************************************************************************)
None == "None"                 \* Python None, also an attribute not present

(***************************************************************************)
(* whirlpool/sensor.py: static tables                                      *)
(***************************************************************************)
TANK_FILL ==
    [c \in {"0", "1", "2", "3", "4", "5"} |->
        CASE c = "0" -> "Unknown"
          [] c = "1" -> "Empty"
          [] c = "2" -> "25%"
          [] c = "3" -> "50%"
          [] c = "4" -> "100%"
          [] c = "5" -> "Active"]

MachineStateNames ==
    {"Standby", "Setting", "DelayCountdownMode", "DelayPause", "SmartDelay",
     "SmartGridPause", "Pause", "RunningMainCycle", "RunningPostCycle",
     "Exceptions", "Complete", "PowerFailure", "ServiceDiagnostic",
     "FactoryDiagnostic", "LifeTest", "CustomerFocusMode", "DemoMode",
     "HardStopOrError", "SystemInit"}

MACHINE_STATE ==
    [m \in MachineStateNames |->
        CASE m = "Standby"            -> "Standby"
          [] m = "Setting"            -> "Setting"
          [] m = "DelayCountdownMode" -> "Delay Countdown"
          [] m = "DelayPause"         -> "Delay Paused"
          [] m = "SmartDelay"         -> "Smart Delay"
          [] m = "SmartGridPause"     -> "Smart Grid Pause"
          [] m = "Pause"              -> "Pause"
          [] m = "RunningMainCycle"   -> "Running Maincycle"
          [] m = "RunningPostCycle"   -> "Running Postcycle"
          [] m = "Exceptions"         -> "Exception"
          [] m = "Complete"           -> "Complete"
          [] m = "PowerFailure"       -> "Power Failure"
          [] m = "ServiceDiagnostic"  -> "Service Diagnostic Mode"
          [] m = "FactoryDiagnostic"  -> "Factory Diagnostic Mode"
          [] m = "LifeTest"           -> "Life Test"
          [] m = "CustomerFocusMode"  -> "Customer Focus Mode"
          [] m = "DemoMode"           -> "Demo Mode"
          [] m = "HardStopOrError"    -> "Hard Stop or Error"
          [] m = "SystemInit"         -> "System Initialize"]

CYCLE_FUNC ==
    << [func |-> "filling",  name |-> "Cycle Filling"],
       [func |-> "rinsing",  name |-> "Cycle Rinsing"],
       [func |-> "sensing",  name |-> "Cycle Sensing"],
       [func |-> "soaking",  name |-> "Cycle Soaking"],
       [func |-> "spinning", name |-> "Cycle Spinning"],
       [func |-> "washing",  name |-> "Cycle Washing"] >>

STATE_UNKNOWN == "unknown"

\* What get_machine_state() can hand back: a MachineState member, or None
\* when the client holds no recognised state.
MachineStates == MachineStateNames \cup {None}

CycleFuncs == {CYCLE_FUNC[i].func : i \in 1..Len(CYCLE_FUNC)}

\* Values the two string attributes read by value_fn can take.
DoorAttrs == {"0", "1", None}
DispenseAttrs == {"0", "1", "2", "3", "4", "5", "6", None}

Washers ==
    [door : DoorAttrs, machine_state : MachineStates,
     cycle : [CycleFuncs -> BOOLEAN], dispense : DispenseAttrs]

(***************************************************************************)
(* whirlpool/sensor.py: washer_state                                       *)
(***************************************************************************)
RECURSIVE CycleLoopLastWins(_, _)
\* Faulty variant of CycleLoop: a later true entry replaces an earlier one.
CycleLoopLastWins(w, i) ==
    IF i > Len(CYCLE_FUNC) THEN None
    ELSE IF CycleLoopLastWins(w, i + 1) # None
         THEN CycleLoopLastWins(w, i + 1)
         ELSE IF w.cycle[CYCLE_FUNC[i].func] THEN CYCLE_FUNC[i].name
              ELSE None

RECURSIVE CycleLoop(_, _)
\* The for loop of washer_state from index i on: the name of the first
\* entry whose func is true of the washer, None when the loop runs out.
CycleLoop(w, i) ==
    IF i > Len(CYCLE_FUNC) THEN None
    ELSE IF w.cycle[CYCLE_FUNC[i].func] THEN CYCLE_FUNC[i].name
    ELSE CycleLoop(w, i + 1)

\* Faulty variant of MachineStateGet: .get() without the default.
MachineStateGetNoDefault(machine_state) ==
    IF machine_state \in DOMAIN MACHINE_STATE
    THEN MACHINE_STATE[machine_state]
    ELSE None

MachineStateGet(machine_state) ==
    IF machine_state \in DOMAIN MACHINE_STATE
    THEN MACHINE_STATE[machine_state]
    ELSE STATE_UNKNOWN

\* Faulty variant of washer_state: the door is looked at after the cycle probe.
washer_state_door_last(w) ==
    IF w.machine_state = "RunningMainCycle" /\ CycleLoop(w, 1) # None
    THEN CycleLoop(w, 1)
    ELSE IF w.door = "1" THEN "Door open"
         ELSE MachineStateGet(w.machine_state)

washer_state(w) ==
    IF w.door = "1" THEN "Door open"
    ELSE IF w.machine_state = "RunningMainCycle" /\ CycleLoop(w, 1) # None
         THEN CycleLoop(w, 1)
         ELSE MachineStateGet(w.machine_state)

\* Faulty variant of dispense_level: a lookup with a default label.
dispense_level_with_default(w) ==
    IF w.dispense \in DOMAIN TANK_FILL
    THEN [raised |-> None, value |-> TANK_FILL[w.dispense]]
    ELSE [raised |-> None, value |-> "Unknown"]

\* value_fn of the DispenseLevel description: TANK_FILL[...] subscript.
dispense_level(w) ==
    IF w.dispense \in DOMAIN TANK_FILL
    THEN [raised |-> None, value |-> TANK_FILL[w.dispense]]
    ELSE [raised |-> "KeyError", value |-> None]

SENSORS == {"state", "DispenseLevel"}

\* WasherDryerClass.native_value for the description with the given key.
WasherDryerClass_native_value(key, w) ==
    IF key = "state"
    THEN [key |-> key, raised |-> None, value |-> washer_state(w)]
    ELSE [key |-> key, raised |-> dispense_level(w).raised,
          value |-> dispense_level(w).value]

(***************************************************************************)
(* whirlpool/sensor.py: WasherDryerTimeClass                               *)
(***************************************************************************)
Digits == {"0", "1", "2", "3", "4", "5", "6", "7", "8", "9"}

DigitValue(c) ==
    CASE c = "0" -> 0 [] c = "1" -> 1 [] c = "2" -> 2 [] c = "3" -> 3
      [] c = "4" -> 4 [] c = "5" -> 5 [] c = "6" -> 6 [] c = "7" -> 7
      [] c = "8" -> 8 [] c = "9" -> 9

RECURSIVE DecimalValue(_, _)
\* Value of the decimal digit string s (a sequence of characters), given
\* the value acc of the digits already consumed.
DecimalValue(s, acc) ==
    IF s = <<>> THEN acc
    ELSE DecimalValue(Tail(s), 10 * acc + DigitValue(Head(s)))

\* An optional bool or instant: Unset is Python's None, Some(x) is x.
Unset == <<>>
Some(x) == <<x>>
Get(opt) == opt[1]

\* int(text) of line 284 for the attribute texts of the model: the number
\* a non-empty digit string denotes; anything else raises (Unset here).
int(text) ==
    IF text # <<>> /\ \A i \in 1..Len(text) : text[i] \in Digits
    THEN Some(DecimalValue(text, 0))
    ELSE Unset

\* Faulty variant of finish_branch: the `and self._running` conjunct is missing.
finish_branch_ignores_running(self, machine_state) ==
    machine_state \in {"Complete", "Standby"}

\* Faulty variant of finish_branch: every state but the running one finishes.
finish_branch_any_idle(self, machine_state) ==
    machine_state # "RunningMainCycle" /\ self.running = Some(TRUE)

\* Lines 272-276: the condition of the finish branch.
finish_branch(self, machine_state) ==
    machine_state \in {"Complete", "Standby"} /\ self.running = Some(TRUE)

\* Line 277: what the finish branch stores in _running.
finish_running == Some(FALSE)

\* Faulty variant of finish_value: the previous estimate is kept.
finish_value_keeps_estimate(self, utcnow) == self.native_value

\* Line 278: what the finish branch stores in _attr_native_value.
finish_value(self, utcnow) == Some(utcnow)

\* Line 281: the condition of the running branch.
running_branch(machine_state) == machine_state = "RunningMainCycle"

\* Faulty variant of estimated_end: the estimate never moves earlier.
estimated_end_never_earlier(self, utcnow, est_remaining) ==
    IF self.native_value # Unset
       /\ Get(self.native_value) > utcnow + Get(int(est_remaining))
    THEN self.native_value
    ELSE Some(utcnow + Get(int(est_remaining)))

\* Lines 283-285: now + timedelta(seconds=int(...)), for a numeric text.
estimated_end(self, utcnow, est_remaining) ==
    Some(utcnow + Get(int(est_remaining)))

\* update_from_latest_data as a function of the entity's fields and of
\* what the client and the clock report: the new fields, whether the
\* finish branch and the running branch ran to their end, and the
\* exception that ended the call, if any.
update_from_latest_data(self, machine_state, utcnow, est_remaining) ==
    IF machine_state = None
    THEN [running |-> self.running, native_value |-> self.native_value,
          finished |-> FALSE, started |-> FALSE, raised |-> "AttributeError"]
    ELSE
      LET finish == finish_branch(self, machine_state)
          r1 == IF finish THEN finish_running ELSE self.running
          v1 == IF finish THEN finish_value(self, utcnow)
                ELSE self.native_value
      IN  IF running_branch(machine_state)
          THEN IF int(est_remaining) = Unset
               THEN [running |-> Some(TRUE), native_value |-> v1,
                     finished |-> finish, started |-> FALSE,
                     raised |-> "ValueError"]
               ELSE [running |-> Some(TRUE),
                     native_value |->
                         estimated_end([running |-> Some(TRUE),
                                        native_value |-> v1],
                                       utcnow, est_remaining),
                     finished |-> finish, started |-> TRUE, raised |-> None]
          ELSE [running |-> r1, native_value |-> v1,
                finished |-> finish, started |-> FALSE, raised |-> None]

(***************************************************************************)
(* Spec: one WasherDryerTimeClass entity, its client and the clock         *)
(***************************************************************************)
MaxTime == 6
TickSteps == {1, 5}

\* Texts of Cavity_TimeStatusEstTimeRemaining: digit strings, and the empty
\* text as the one int() rejects.
EstRemainingTexts ==
    { <<"0">>, <<"3", "0", "0">>, <<"6", "0", "0">>, <<>> }

\* What async_get_last_sensor_data() returns: nothing, or stored data whose
\* native_value is an instant of an earlier run or None.
RestoredData == {Unset, Some(Unset), Some(Some(2)), Some(Some(400))}

InitTime ==
    /\ now = 0
    /\ wd_machine_state \in MachineStates
    /\ wd_est_remaining \in EstRemainingTexts
    /\ wd_connected = TRUE
    /\ wd_callbacks = FALSE
    /\ phase = "created"
    /\ running = Unset
    /\ native_value = Unset
    /\ cb_time = Unset
    /\ pre_running = Unset
    /\ pre_value = Unset
    /\ pre_awaiting = FALSE
    /\ awaiting_finish = FALSE
    /\ finish_stamps = 0
    /\ finish_time = Unset

IdleTime ==
    /\ now = 0
    /\ wd_machine_state = None
    /\ wd_est_remaining = <<>>
    /\ wd_connected = FALSE
    /\ wd_callbacks = FALSE
    /\ phase = "created"
    /\ running = Unset
    /\ native_value = Unset
    /\ cb_time = Unset
    /\ pre_running = Unset
    /\ pre_value = Unset
    /\ pre_awaiting = FALSE
    /\ awaiting_finish = FALSE
    /\ finish_stamps = 0
    /\ finish_time = Unset

\* The clock moves on between two operations.
Tick(d) ==
    /\ now + d <= MaxTime
    /\ now' = now + d
    /\ UNCHANGED <<wd_machine_state, wd_est_remaining, wd_connected,
                   wd_callbacks, phase, running, native_value, histVars,
                   valueVars, lifeVars, netVars>>

\* WasherDryerTimeClass.async_added_to_hass
async_added_to_hass(restored_data) ==
    /\ phase = "created"
    /\ phase' = "added"
    /\ native_value' = IF restored_data # Unset THEN Get(restored_data)
                       ELSE native_value
    /\ wd_callbacks' = TRUE
    /\ UNCHANGED <<now, wd_machine_state, wd_est_remaining, wd_connected,
                   running, histVars, valueVars, lifeVars, netVars>>

\* WasherDryerTimeClass.async_will_remove_from_hass
async_will_remove_from_hass ==
    /\ phase = "added"
    /\ phase' = "removed"
    /\ wd_connected' = FALSE
    /\ UNCHANGED <<now, wd_machine_state, wd_est_remaining, wd_callbacks,
                   running, native_value, histVars,
                   valueVars, lifeVars, netVars>>

\* A push from the appliance: the client takes the new machine state and
\* remaining time, then calls the registered callback, if any.
Push(machine_state, est_remaining) ==
    /\ wd_connected
    /\ wd_machine_state' = machine_state
    /\ wd_est_remaining' = est_remaining
    /\ IF wd_callbacks
       THEN LET out == update_from_latest_data(
                           [running |-> running, native_value |-> native_value],
                           machine_state, now, est_remaining)
            IN  /\ running' = out.running
                /\ native_value' = out.native_value
                /\ cb_time' = Some(now)
                /\ pre_running' = running
                /\ pre_value' = native_value
                /\ pre_awaiting' = awaiting_finish
                /\ awaiting_finish' =
                       IF machine_state = "RunningMainCycle" THEN TRUE
                       ELSE IF machine_state \in {"Complete", "Standby"}
                            THEN FALSE
                            ELSE awaiting_finish
                /\ finish_stamps' =
                       IF machine_state = "RunningMainCycle" THEN 0
                       ELSE IF out.finished THEN finish_stamps + 1
                            ELSE finish_stamps
                /\ finish_time' =
                       IF machine_state = "RunningMainCycle" THEN Unset
                       ELSE IF out.finished THEN Some(now)
                            ELSE finish_time
       ELSE UNCHANGED <<running, native_value, histVars>>
    /\ UNCHANGED <<now, wd_connected, wd_callbacks, phase,
                   valueVars, lifeVars, netVars>>

Next ==
    \/ \E d \in TickSteps : Tick(d)
    \/ \E restored_data \in RestoredData : async_added_to_hass(restored_data)
    \/ async_will_remove_from_hass
    \/ \E machine_state \in MachineStates, est_remaining \in EstRemainingTexts :
           Push(machine_state, est_remaining)

(***************************************************************************)
(* SpecValue: WasherDryerClass.native_value over every client reading      *)
(***************************************************************************)
NoResult == [key |-> None, raised |-> None, value |-> None]

InitValue ==
    /\ washer \in Washers
    /\ result = NoResult

IdleValue ==
    /\ washer = [door |-> None, machine_state |-> None,
                 cycle |-> [f \in CycleFuncs |-> FALSE], dispense |-> None]
    /\ result = NoResult

\* The host reads native_value of the entity with the given description.
ReadNativeValue(key) ==
    /\ result' = WasherDryerClass_native_value(key, washer)
    /\ UNCHANGED <<washer, timeVars, lifeVars, netVars>>

ValueNext == \E key \in SENSORS : ReadNativeValue(key)

(***************************************************************************)
(* devolo_home_network/sensor.py                                           *)
(***************************************************************************)
CONNECTED_PLC_DEVICES == "connected_plc_devices"
CONNECTED_WIFI_CLIENTS == "connected_wifi_clients"
NEIGHBORING_WIFI_NETWORKS == "neighboring_wifi_networks"

SENSOR_TYPES ==
    {CONNECTED_PLC_DEVICES, CONNECTED_WIFI_CLIENTS, NEIGHBORING_WIFI_NETWORKS}

MaxRecords == 4
MaxStations == 2
MacAddresses == {"A", "B", "C"}

SeqsUpTo(S, n) == UNION {[1..k -> S] : k \in 0..n}

\* LogicalNetwork snapshots: data_rates is a list of records, each with the
\* address the rate was measured from.
LogicalNetworks ==
    [data_rates : SeqsUpTo([mac_address_from : MacAddresses], MaxRecords)]

\* list[ConnectedStationInfo] and list[NeighborAPInfo] snapshots.
StationLists == SeqsUpTo({"station"}, MaxStations)

DataOf(key) ==
    IF key = CONNECTED_PLC_DEVICES THEN LogicalNetworks ELSE StationLists

\* Faulty variant of connected_plc_devices: the records are counted, not the
\* distinct addresses.
connected_plc_devices_all_records(data) == Len(data.data_rates)

\* Lines 62-64: len({device.mac_address_from for device in data.data_rates})
connected_plc_devices(data) ==
    Cardinality({data.data_rates[i].mac_address_from :
                     i \in 1..Len(data.data_rates)})

\* value_func of the description with the given key.
value_func(key, data) ==
    IF key = CONNECTED_PLC_DEVICES THEN connected_plc_devices(data)
    ELSE Len(data)

NoRead == [key |-> None, value |-> Unset]

InitNet ==
    /\ coordinator_data \in
           [plc : LogicalNetworks, stations : StationLists,
            neighbors : StationLists]
    /\ net_value = NoRead

IdleNet ==
    /\ coordinator_data = [plc |-> [data_rates |-> <<>>], stations |-> <<>>,
                           neighbors |-> <<>>]
    /\ net_value = NoRead

\* The coordinator's data for the description with the given key.
coordinator(key) ==
    IF key = CONNECTED_PLC_DEVICES THEN coordinator_data.plc
    ELSE IF key = CONNECTED_WIFI_CLIENTS THEN coordinator_data.stations
    ELSE coordinator_data.neighbors

\* A coordinator refresh replaces the snapshot of one metric; the entity
\* listening to that coordinator then has its native_value read.
Refresh(key, data) ==
    /\ coordinator_data' =
           IF key = CONNECTED_PLC_DEVICES
           THEN [coordinator_data EXCEPT !.plc = data]
           ELSE IF key = CONNECTED_WIFI_CLIENTS
           THEN [coordinator_data EXCEPT !.stations = data]
           ELSE [coordinator_data EXCEPT !.neighbors = data]
    /\ net_value' = [key |-> key, value |-> Some(value_func(key, data))]
    /\ UNCHANGED <<valueVars, timeVars, lifeVars>>

\* DevoloSensorEntity.native_value
DevoloSensorEntity_native_value(key) ==
    /\ net_value' = [key |-> key, value |-> Some(value_func(key, coordinator(key)))]
    /\ UNCHANGED <<coordinator_data, valueVars, timeVars, lifeVars>>

NetNext ==
    \/ \E key \in SENSOR_TYPES : \E data \in DataOf(key) : Refresh(key, data)
    \/ \E key \in SENSOR_TYPES : DevoloSensorEntity_native_value(key)

(***************************************************************************)
(* SpecLife: the entities async_setup_entry creates                        *)
(***************************************************************************)
NumAppliances == 2
LifeMaxTime == 1

\* whirlpool_data.appliances_manager.washer_dryers, by SAID.
Appliances == 1..NumAppliances

SENSOR_TIMER == {"timeremaining"}

\* One entity per appliance and description (lines 151-172).
LifeEntities == Appliances \X (SENSORS \cup SENSOR_TIMER)

\* Pushes of SpecLife: the machine states the callback tells apart.
LifeMachineStates == {"RunningMainCycle", "Complete", "Pause"}
LifeEstRemainingTexts == { <<"1">> }
LifeRestoredData == {Unset, Some(Some(0))}

\* async_setup_entry: per appliance one connected WasherDryer, handed to
\* each of the appliance's entities; no entity is added to the host yet.
InitLife ==
    /\ life_now = 0
    /\ clients \in [Appliances ->
                       [connected : {TRUE}, callbacks : {{}},
                        machine_state : LifeMachineStates,
                        est_remaining : LifeEstRemainingTexts]]
    /\ entities = [e \in LifeEntities |->
                      [phase |-> "created", running |-> Unset,
                       native_value |-> Unset]]

\* self._wd of an entity: the client of its appliance.
wd(e) == e[1]

LifeTick ==
    /\ life_now < LifeMaxTime
    /\ life_now' = life_now + 1
    /\ UNCHANGED <<clients, entities, valueVars, timeVars, netVars>>

\* async_added_to_hass of WasherDryerClass and of WasherDryerTimeClass
LifeAddedToHass(e, restored_data) ==
    /\ entities[e].phase = "created"
    /\ e[2] \in SENSORS => restored_data = Unset
    /\ entities' =
           [entities EXCEPT ![e] =
               [@ EXCEPT !.phase = "added",
                         !.native_value =
                             IF restored_data # Unset THEN Get(restored_data)
                             ELSE @]]
    /\ clients' = [clients EXCEPT ![wd(e)].callbacks = @ \cup {e[2]}]
    /\ UNCHANGED <<life_now, valueVars, timeVars, netVars>>

\* async_will_remove_from_hass of both classes: await self._wd.disconnect()
LifeWillRemoveFromHass(e) ==
    /\ entities[e].phase = "added"
    /\ entities' = [entities EXCEPT ![e].phase = "removed"]
    /\ clients' = [clients EXCEPT ![wd(e)].connected = FALSE]
    /\ UNCHANGED <<life_now, valueVars, timeVars, netVars>>

\* A push from appliance a: the client takes the data and calls every
\* registered callback; async_write_ha_state (WasherDryerClass) changes no
\* field, update_from_latest_data changes those of the time entity.
LifePush(a, machine_state, est_remaining) ==
    /\ clients[a].connected
    /\ clients' = [clients EXCEPT ![a].machine_state = machine_state,
                                  ![a].est_remaining = est_remaining]
    /\ entities' =
           [e \in LifeEntities |->
               IF wd(e) = a /\ e[2] \in SENSOR_TIMER
                  /\ e[2] \in clients[a].callbacks
               THEN LET out == update_from_latest_data(
                                   entities[e], machine_state, life_now,
                                   est_remaining)
                    IN  [entities[e] EXCEPT !.running = out.running,
                                            !.native_value = out.native_value]
               ELSE entities[e]]
    /\ UNCHANGED <<life_now, valueVars, timeVars, netVars>>

LifeNext ==
    \/ LifeTick
    \/ \E e \in LifeEntities, restored_data \in LifeRestoredData :
           LifeAddedToHass(e, restored_data)
    \/ \E e \in LifeEntities : LifeWillRemoveFromHass(e)
    \/ \E a \in Appliances, machine_state \in LifeMachineStates,
          est_remaining \in LifeEstRemainingTexts :
           LifePush(a, machine_state, est_remaining)

(***************************************************************************)
(* Specifications                                                          *)
(***************************************************************************)
IdleLife == life_now = 0 /\ clients = <<>> /\ entities = <<>>

Init == InitTime /\ IdleValue /\ IdleLife /\ IdleNet
Spec == Init /\ [][Next]_vars

ValueInit == InitValue /\ IdleTime /\ IdleLife /\ IdleNet
SpecValue == ValueInit /\ [][ValueNext]_vars

NetInit == InitNet /\ IdleValue /\ IdleTime /\ IdleLife
SpecNet == NetInit /\ [][NetNext]_vars

LifeInit == InitLife /\ IdleValue /\ IdleTime /\ IdleNet
SpecLife == LifeInit /\ [][LifeNext]_vars

(***************************************************************************)
(* Properties of WasherDryerTimeClass, checked under Spec                  *)
(***************************************************************************)
\* The callback has run; the client still holds what that run read.
CallbackRan == cb_time # Unset
FinishStates == {"Complete", "Standby"}

\* C1: after a callback run that read running-main-cycle, _running is true
\* and, for a numeric remaining time, the stored value is the instant of
\* the run plus the reported seconds, whatever was stored before; a run
\* reporting 300 seconds five seconds after 600 seconds were reported
\* stores an earlier instant than the one it replaces.
C1_RunningPushStoresEstimate ==
    (CallbackRan /\ wd_machine_state = "RunningMainCycle") =>
        /\ running = Some(TRUE)
        /\ wd_est_remaining = <<"0">> => native_value = Some(Get(cb_time))
        /\ wd_est_remaining = <<"3", "0", "0">> =>
               native_value = Some(Get(cb_time) + 300)
        /\ wd_est_remaining = <<"6", "0", "0">> =>
               native_value = Some(Get(cb_time) + 600)
        /\ (/\ wd_est_remaining = <<"3", "0", "0">>
            /\ pre_value = Some(Get(cb_time) - 5 + 600)) =>
               /\ native_value = Some(Get(cb_time) - 5 + 305)
               /\ Get(native_value) < Get(pre_value)

C1_Witness ==
    /\ CallbackRan
    /\ wd_machine_state = "RunningMainCycle"
    /\ wd_est_remaining = <<"3", "0", "0">>
    /\ cb_time = Some(5)
    /\ pre_value = Some(600)
    /\ native_value = Some(305)
    /\ running = Some(TRUE)

\* C2: after a callback run that read complete or standby while _running
\* was true, _running is false and the stored value is the instant of
\* that run.
C2_FinishPushStoresNow ==
    (CallbackRan /\ wd_machine_state \in FinishStates
                 /\ pre_running = Some(TRUE)) =>
        /\ running = Some(FALSE)
        /\ native_value = cb_time

C2_Witness ==
    /\ CallbackRan
    /\ wd_machine_state = "Complete"
    /\ pre_running = Some(TRUE)
    /\ pre_value = Some(600)
    /\ cb_time = Some(5)
    /\ native_value = Some(5)
    /\ running = Some(FALSE)

\* C3: a callback run that read neither running-main-cycle nor
\* complete/standby with _running true leaves _running and the stored value
\* as they were (a restored or unset value included); and from a finish
\* stamp until the next running-main-cycle push the stored value stays the
\* instant of that stamp.
C3_OtherPushesChangeNothing ==
    /\ (/\ CallbackRan
        /\ wd_machine_state # "RunningMainCycle"
        /\ ~(wd_machine_state \in FinishStates /\ pre_running = Some(TRUE)))
       => (running = pre_running /\ native_value = pre_value)
    /\ finish_time # Unset => native_value = finish_time

C3_Witness ==
    /\ CallbackRan
    /\ wd_machine_state = "Complete"
    /\ pre_running = Unset
    /\ running = Unset
    /\ pre_value = Some(400)
    /\ native_value = Some(400)
    /\ Get(cb_time) > 0

\* C10: _running is true exactly from a running-main-cycle push until the
\* next complete/standby push, whatever other states are pushed in
\* between; that complete/standby push stores its own instant; and at most
\* one finish stamp happens between two running-main-cycle pushes.
C10_RunningClearedOnlyByFinish ==
    /\ awaiting_finish <=> running = Some(TRUE)
    /\ finish_stamps <= 1
    /\ (CallbackRan /\ pre_awaiting /\ wd_machine_state \in FinishStates) =>
           /\ native_value = cb_time
           /\ finish_stamps = 1
    /\ (CallbackRan /\ pre_awaiting /\ wd_machine_state \notin FinishStates) =>
           running = Some(TRUE)

C10_Witness ==
    /\ CallbackRan
    /\ wd_machine_state = "Pause"
    /\ pre_awaiting
    /\ pre_running = Some(TRUE)
    /\ running = Some(TRUE)
    /\ native_value = Some(600)
    /\ Get(cb_time) > 0

(***************************************************************************)
(* Properties of WasherDryerClass.native_value, checked under SpecValue    *)
(***************************************************************************)
StateRead == result.key = "state"
CycleOrder ==
    <<"filling", "rinsing", "sensing", "soaking", "spinning", "washing">>
CycleLabel(f) ==
    CASE f = "filling"  -> "Cycle Filling"
      [] f = "rinsing"  -> "Cycle Rinsing"
      [] f = "sensing"  -> "Cycle Sensing"
      [] f = "soaking"  -> "Cycle Soaking"
      [] f = "spinning" -> "Cycle Spinning"
      [] f = "washing"  -> "Cycle Washing"
NoCycleFlag == \A f \in CycleFuncs : ~washer.cycle[f]

\* C4: with the door-open attribute at "1" the state sensor reads
\* "Door open", for every machine state and every combination of flags.
C4_DoorOpenFirst ==
    (StateRead /\ washer.door = "1") =>
        (result.value = "Door open" /\ result.raised = None)

C4_Witness ==
    /\ StateRead
    /\ washer.door = "1"
    /\ washer.machine_state = "RunningMainCycle"
    /\ washer.cycle["washing"]
    /\ result.value = "Door open"

\* C5: door not open and running-main-cycle: the state sensor reads the
\* label of the earliest true flag in the order filling, rinsing, sensing,
\* soaking, spinning, washing.
C5_FirstTrueFlagWins ==
    (StateRead /\ washer.door # "1"
               /\ washer.machine_state = "RunningMainCycle") =>
        \A i \in 1..Len(CycleOrder) :
            (/\ washer.cycle[CycleOrder[i]]
             /\ \A j \in 1..(i - 1) : ~washer.cycle[CycleOrder[j]])
            => result.value = CycleLabel(CycleOrder[i])

C5_Witness ==
    /\ StateRead
    /\ washer.door = "0"
    /\ washer.machine_state = "RunningMainCycle"
    /\ ~washer.cycle["filling"]
    /\ washer.cycle["rinsing"]
    /\ washer.cycle["spinning"]
    /\ washer.cycle["washing"]
    /\ result.value = "Cycle Rinsing"

\* C6: door not open and either not running-main-cycle or no flag true:
\* the state sensor reads the table's label of the machine state, and
\* "unknown", without an exception, for a state the table does not have.
C6_TableOrUnknown ==
    (StateRead /\ washer.door # "1"
               /\ (washer.machine_state # "RunningMainCycle" \/ NoCycleFlag))
    => /\ result.raised = None
       /\ washer.machine_state \in MachineStateNames =>
              result.value = MACHINE_STATE[washer.machine_state]
       /\ washer.machine_state = "RunningMainCycle" =>
              result.value = "Running Maincycle"
       /\ washer.machine_state \notin MachineStateNames =>
              result.value = "unknown"

C6_Witness ==
    /\ StateRead
    /\ washer.door = None
    /\ washer.machine_state = None
    /\ washer.cycle["filling"]
    /\ result.value = "unknown"
    /\ result.raised = None

\* C9: the fill-level sensor reads the table's label for the codes "0" to
\* "5"; for any other code the read ends in a KeyError and no label.
C9_FillLevelLookup ==
    result.key = "DispenseLevel" =>
        /\ washer.dispense = "0" => result = [key |-> "DispenseLevel", raised |-> None, value |-> "Unknown"]
        /\ washer.dispense = "1" => result = [key |-> "DispenseLevel", raised |-> None, value |-> "Empty"]
        /\ washer.dispense = "2" => result = [key |-> "DispenseLevel", raised |-> None, value |-> "25%"]
        /\ washer.dispense = "3" => result = [key |-> "DispenseLevel", raised |-> None, value |-> "50%"]
        /\ washer.dispense = "4" => result = [key |-> "DispenseLevel", raised |-> None, value |-> "100%"]
        /\ washer.dispense = "5" => result = [key |-> "DispenseLevel", raised |-> None, value |-> "Active"]
        /\ washer.dispense \notin {"0", "1", "2", "3", "4", "5"} =>
               result = [key |-> "DispenseLevel", raised |-> "KeyError", value |-> None]

C9_Witness ==
    /\ result.key = "DispenseLevel"
    /\ washer.dispense = "6"
    /\ result.raised = "KeyError"
    /\ result.value = None

(***************************************************************************)
(* Property of the connected-PLC-devices sensor, checked under SpecNet     *)
(***************************************************************************)
\* C7: the connected-PLC-devices value is the number of distinct source
\* addresses of the snapshot's data-rate records: 3 for records from
\* A, A, B, C and 0 for no records.
C7_DistinctSourceAddresses ==
    net_value.key = CONNECTED_PLC_DEVICES =>
        LET rates == coordinator_data.plc.data_rates
            sources == {m \in MacAddresses :
                           \E i \in 1..Len(rates) : rates[i].mac_address_from = m}
        IN  /\ net_value.value = Some(Cardinality(sources))
            /\ rates = <<>> => net_value.value = Some(0)
            /\ rates = << [mac_address_from |-> "A"], [mac_address_from |-> "A"],
                          [mac_address_from |-> "B"], [mac_address_from |-> "C"] >>
                   => net_value.value = Some(3)

C7_Witness ==
    /\ net_value.key = CONNECTED_PLC_DEVICES
    /\ coordinator_data.plc.data_rates =
           << [mac_address_from |-> "A"], [mac_address_from |-> "A"],
              [mac_address_from |-> "B"], [mac_address_from |-> "C"] >>
    /\ net_value.value = Some(3)

(***************************************************************************)
(* Property of the entities of async_setup_entry, checked under SpecLife   *)
(***************************************************************************)
\* The fields of entity f and the connection of the client it uses stay
\* as they are in this step.
Untouched(f) ==
    /\ entities'[f] = entities[f]
    /\ clients'[wd(f)].connected = clients[wd(f)].connected

\* C8: being added to the host or removed from it, an entity changes
\* neither the fields nor the connection of any other entity, and a push
\* from one appliance changes nothing of another appliance's entities.
C8_NoCrossEntityEffect ==
    [][ /\ \A e \in LifeEntities :
               (\/ LifeWillRemoveFromHass(e)
                \/ \E restored_data \in LifeRestoredData :
                       LifeAddedToHass(e, restored_data))
               => \A f \in LifeEntities \ {e} : Untouched(f)
        /\ \A a \in Appliances :
               (\E machine_state \in LifeMachineStates,
                   est_remaining \in LifeEstRemainingTexts :
                       LifePush(a, machine_state, est_remaining))
               => \A f \in LifeEntities : wd(f) # a => Untouched(f)
      ]_vars

====
